---- MODULE Spec2Model ----
(***************************************************************************)
(* A model of the query-plan rewriting engine of src/src/main.rs: the     *)
(* identifier allocator and rule configuration (State), the scalar        *)
(* expression IR (Expr), the relational plan IR (RelExpr) and its         *)
(* rewriting constructors select / join / map / hoist / flatmap / project.*)
(*                                                                         *)
(* Trees are records tagged by "kind".  A panic of the program (assert!,  *)
(* unimplemented!) is the value Panic(..); every constructor that can     *)
(* reach one returns [rel, next_id]: the plan (or the panic) and the      *)
(* value of the shared counter after the call.                            *)
(***************************************************************************)
EXTENDS Integers, Sequences, FiniteSets, TLC

VARIABLES cells, rules, states, stack, returned, last, aborted

vars == <<cells, rules, states, stack, returned, last, aborted>>

-----------------------------------------------------------------------------
(* Expr: the scalar expression IR                                          *)

ColRef(id) == [kind |-> "ColRef", id |-> id]

Int_(val) == [kind |-> "Int", val |-> val]

Eq(l, r) == [kind |-> "Eq", left |-> l, right |-> r]

Plus(l, r) == [kind |-> "Plus", left |-> l, right |-> r]

Subquery(rel) == [kind |-> "Subquery", expr |-> rel]

(* RelExpr: the relational plan IR                                         *)

Scan(table_name, column_names) ==
    [kind |-> "Scan", table_name |-> table_name, column_names |-> column_names]

SelectNode(src, predicates) ==
    [kind |-> "Select", src |-> src, predicates |-> predicates]

JoinNode(left, right, predicates) ==
    [kind |-> "Join", left |-> left, right |-> right, predicates |-> predicates]

ProjectNode(src, cols) == [kind |-> "Project", src |-> src, cols |-> cols]

MapNode(input, exprs) == [kind |-> "Map", input |-> input, exprs |-> exprs]

FlatMapNode(input, func) == [kind |-> "FlatMap", input |-> input, func |-> func]

(* A panic: assert! failure ("arity") or unimplemented! ("unimplemented") *)
Panic(why) == [kind |-> "Panic", why |-> why]

IsPanic(x) == x.kind = "Panic"

Range(s) == {s[i] : i \in DOMAIN s}

-----------------------------------------------------------------------------
(* att, free, has_subquery: the structural queries                         *)

RECURSIVE Expr_free(_), free(_), att(_), Expr_has_subquery(_)

att(self) ==
    CASE self.kind = "Scan" -> Range(self.column_names)
      [] self.kind = "Select" -> att(self.src)
      [] self.kind = "Join" -> att(self.left) \cup att(self.right)
      [] self.kind = "Map" ->
            att(self.input) \cup {self.exprs[i][1] : i \in DOMAIN self.exprs}
      [] self.kind = "Project" -> self.cols
      [] self.kind = "FlatMap" -> att(self.input) \cup att(self.func)

Expr_free(self) ==
    CASE self.kind = "ColRef" -> {self.id}
      [] self.kind = "Int" -> {}
      [] self.kind = "Eq" -> Expr_free(self.left) \cup Expr_free(self.right)
      [] self.kind = "Plus" -> Expr_free(self.left) \cup Expr_free(self.right)
      [] self.kind = "Subquery" -> free(self.expr)

(* the union of the free sets of a list of expressions *)
FreeOfAll(es) == UNION {Expr_free(es[i]) : i \in DOMAIN es}

(* free in which a Map does not bind its input's columns *)
free_mapUnscoped(self) ==
    CASE self.kind = "Map" ->
            free(self.input)
              \cup UNION {Expr_free(self.exprs[i][2]) : i \in DOMAIN self.exprs}
      [] self.kind = "FlatMap" ->
            (free(self.input) \cup free(self.func)) \ att(self.input)
      [] self.kind = "Scan" -> {}
      [] self.kind = "Select" ->
            (free(self.src) \cup FreeOfAll(self.predicates)) \ att(self.src)
      [] self.kind = "Join" ->
            (free(self.left) \cup free(self.right) \cup FreeOfAll(self.predicates))
              \ (att(self.left) \cup att(self.right))
      [] self.kind = "Project" -> free(self.src)

free(self) ==
    CASE self.kind = "Map" ->
            (free(self.input)
               \cup UNION {Expr_free(self.exprs[i][2]) : i \in DOMAIN self.exprs})
              \ att(self.input)
      [] self.kind = "FlatMap" ->
            (free(self.input) \cup free(self.func)) \ att(self.input)
      [] self.kind = "Scan" -> {}
      [] self.kind = "Select" ->
            (free(self.src) \cup FreeOfAll(self.predicates)) \ att(self.src)
      [] self.kind = "Join" ->
            (free(self.left) \cup free(self.right) \cup FreeOfAll(self.predicates))
              \ (att(self.left) \cup att(self.right))
      [] self.kind = "Project" -> free(self.src)

(* bound as soon as one free column is the relation's *)
Expr_bound_by_any(self, rel) == Expr_free(self) \cap att(rel) # {}

Expr_bound_by(self, rel) == Expr_free(self) \subseteq att(rel)

(* has_subquery that looks at the root of the expression only *)
Expr_has_subquery_shallow(self) == self.kind = "Subquery"

Expr_has_subquery(self) ==
    CASE self.kind = "ColRef" -> FALSE
      [] self.kind = "Int" -> FALSE
      [] self.kind = "Eq" ->
            Expr_has_subquery(self.left) \/ Expr_has_subquery(self.right)
      [] self.kind = "Plus" ->
            Expr_has_subquery(self.left) \/ Expr_has_subquery(self.right)
      [] self.kind = "Subquery" -> TRUE

-----------------------------------------------------------------------------
(* State: the counter cell and the rule-set cell, as pure functions of the *)
(* cells' contents                                                         *)

Rules == {"Hoist", "Decorrelate"}

(* a counter that hands out its value and is not advanced *)
State_next_stale(n) == [id |-> n, next_id |-> n]

(* State::next on a counter holding n: the id returned, the new content *)
State_next(n) == [id |-> n, next_id |-> n + 1]

(* State::enable on a rule set en *)
enable(en, rule) == en \cup {rule}

(* State::enabled *)
enabled(en, rule) == rule \in en

-----------------------------------------------------------------------------
(* a removal that drops the last element instead of element i *)
SwapRemove_pop(v, i) == SubSeq(v, 1, Len(v) - 1)

(* Vec::swap_remove: element i (1-based here) is replaced by the last one  *)
SwapRemove(v, i) ==
    [j \in 1..(Len(v) - 1) |-> IF j = i THEN v[Len(v)] ELSE v[j]]

-----------------------------------------------------------------------------
(* select and join                                                         *)

RECURSIVE select(_, _), join(_, _, _)

(* select that always wraps its source in a new Select *)
select_noMerge(self, predicates) == SelectNode(self, predicates)

select(self, predicates) ==
    IF self.kind = "Select"
    THEN select(self.src, self.predicates \o predicates)
    ELSE SelectNode(self, predicates)

join(self, other, predicates) ==
    LET pushable == {i \in DOMAIN predicates :
                        \/ Expr_bound_by(predicates[i], self)
                        \/ Expr_bound_by(predicates[i], other)}
    IN  IF pushable = {}
        THEN JoinNode(self, other, predicates)
        ELSE LET i == CHOOSE k \in pushable : \A m \in pushable : k <= m
                 predicate == predicates[i]
                 rest == SwapRemove(predicates, i)
             IN  IF Expr_bound_by(predicate, self)
                 THEN join(select(self, <<predicate>>), other, rest)
                 ELSE join(self, select(other, <<predicate>>), rest)

-----------------------------------------------------------------------------
(* hoist, map, flatmap, project.  The State argument is the pair (en, n):  *)
(* the content of enabled_rules and the content of next_id; the result     *)
(* carries the content of next_id after the call.                          *)

Res(rel, n) == [rel |-> rel, next_id |-> n]

RECURSIVE hoist(_, _, _, _, _), hoist_Plus(_, _, _, _, _), map(_, _, _, _),
          flatmap(_, _, _, _), project(_, _, _, _)

(* an arity check that only refuses a plan with no column *)
ScalarArity_nonEmpty(a) == Cardinality(a) >= 1

(* assert!(att.len() == 1) *)
ScalarArity(a) == Cardinality(a) = 1

(* the Plus arm with the right operand hoisted onto the source itself *)
hoist_Plus_onSource(self, en, n, id, expr) ==
    LET a1 == State_next(n)
        a2 == State_next(a1.next_id)
        lhs_id == a1.id
        rhs_id == a2.id
        a == att(self)
        h1 == hoist(self, en, a2.next_id, lhs_id, expr.left)
        h2 == hoist(self, en, h1.next_id, rhs_id, expr.right)
        m  == map(h2.rel, en, h2.next_id,
                  <<<<id, Plus(ColRef(lhs_id), ColRef(rhs_id))>>>>)
    IN  IF IsPanic(h1.rel) THEN h1
        ELSE IF IsPanic(h2.rel) THEN h2
        ELSE IF IsPanic(m.rel) THEN m
        ELSE project(m.rel, en, m.next_id, a \cup {id})

(* the Plus arm of hoist: two ids, hoist the left, hoist the right onto    *)
(* the result, map the sum, project to the source's columns and id         *)
hoist_Plus(self, en, n, id, expr) ==
    LET a1 == State_next(n)
        a2 == State_next(a1.next_id)
        lhs_id == a1.id
        rhs_id == a2.id
        a == att(self)
        h1 == hoist(self, en, a2.next_id, lhs_id, expr.left)
        h2 == hoist(h1.rel, en, h1.next_id, rhs_id, expr.right)
        m  == map(h2.rel, en, h2.next_id,
                  <<<<id, Plus(ColRef(lhs_id), ColRef(rhs_id))>>>>)
    IN  IF IsPanic(h1.rel) THEN h1
        ELSE IF IsPanic(h2.rel) THEN h2
        ELSE IF IsPanic(m.rel) THEN m
        ELSE project(m.rel, en, m.next_id, a \cup {id})

hoist(self, en, n, id, expr) ==
    CASE expr.kind = "Subquery" ->
            LET a == att(expr.expr)
            IN  IF ~ScalarArity(a)
                THEN Res(Panic("arity"), n)
                ELSE LET input_col_id == CHOOSE c \in a : TRUE
                         rhs == map(expr.expr, en, n,
                                    <<<<id, ColRef(input_col_id)>>>>)
                     IN  IF IsPanic(rhs.rel) THEN rhs
                         ELSE flatmap(self, en, rhs.next_id, rhs.rel)
      [] expr.kind = "Plus" -> hoist_Plus(self, en, n, id, expr)
      [] expr.kind \in {"Int", "ColRef"} -> map(self, en, n, <<<<id, expr>>>>)
      [] OTHER -> Res(Panic("unimplemented"), n)

map(self, en, n, exprs) ==
    IF exprs = <<>> THEN Res(self, n)
    ELSE LET subq == {i \in DOMAIN exprs : Expr_has_subquery(exprs[i][2])}
         IN  IF enabled(en, "Hoist") /\ subq # {}
             THEN LET i == CHOOSE k \in subq : \A m \in subq : k <= m
                      rest == map(self, en, n, SwapRemove(exprs, i))
                  IN  IF IsPanic(rest.rel) THEN rest
                      ELSE hoist(rest.rel, en, rest.next_id,
                                 exprs[i][1], exprs[i][2])
             ELSE Res(MapNode(self, exprs), n)

(* flatmap that never rewrites *)
flatmap_plain(self, en, n, func) == Res(FlatMapNode(self, func), n)

flatmap(self, en, n, func) ==
    IF enabled(en, "Decorrelate")
    THEN IF free(func) = {}
         THEN Res(join(self, func, <<>>), n)
         ELSE IF func.kind = "Project"
         THEN LET cols == func.cols \cup att(self)
                  f == flatmap(self, en, n, func.src)
              IN  IF IsPanic(f.rel) THEN f
                  ELSE project(f.rel, en, f.next_id, cols)
         ELSE IF func.kind = "Map"
         THEN LET f == flatmap(self, en, n, func.input)
              IN  IF IsPanic(f.rel) THEN f
                  ELSE map(f.rel, en, f.next_id, func.exprs)
         ELSE Res(FlatMapNode(self, func), n)
    ELSE Res(FlatMapNode(self, func), n)

project(self, en, n, cols) ==
    IF /\ self.kind = "Map"
       /\ cols \subseteq
            UNION {Expr_free(self.exprs[i][2]) : i \in DOMAIN self.exprs}
    THEN LET p == project(self.input, en, n, cols)
         IN  IF IsPanic(p.rel) THEN p
             ELSE map(p.rel, en, p.next_id, self.exprs)
    ELSE Res(ProjectNode(self, cols), n)

-----------------------------------------------------------------------------
(* Measures and traversals of a plan                                       *)

RECURSIVE Size(_), ExprSize(_), SubPlans(_), ExprPlans(_)

(* plans nested in an expression's Subquery nodes, with their own sub-plans *)
ExprPlans(e) ==
    CASE e.kind \in {"Eq", "Plus"} -> ExprPlans(e.left) \cup ExprPlans(e.right)
      [] e.kind = "Subquery" -> SubPlans(e.expr)
      [] OTHER -> {}

(* every node of a plan: the plan, its children, the plans of its subqueries *)
SubPlans(r) ==
    {r} \cup
    CASE r.kind = "Scan" -> {}
      [] r.kind = "Select" ->
            SubPlans(r.src) \cup UNION {ExprPlans(r.predicates[i]) : i \in DOMAIN r.predicates}
      [] r.kind = "Join" ->
            SubPlans(r.left) \cup SubPlans(r.right)
              \cup UNION {ExprPlans(r.predicates[i]) : i \in DOMAIN r.predicates}
      [] r.kind = "Project" -> SubPlans(r.src)
      [] r.kind = "Map" ->
            SubPlans(r.input) \cup UNION {ExprPlans(r.exprs[i][2]) : i \in DOMAIN r.exprs}
      [] r.kind = "FlatMap" -> SubPlans(r.input) \cup SubPlans(r.func)

RECURSIVE SumSeq(_)
SumSeq(s) == IF s = <<>> THEN 0 ELSE Head(s) + SumSeq(Tail(s))

ExprSize(e) ==
    CASE e.kind \in {"Eq", "Plus"} -> ExprSize(e.left) + ExprSize(e.right)
      [] e.kind = "Subquery" -> Size(e.expr)
      [] OTHER -> 0

(* the number of plan nodes (nested subquery plans included) and predicates *)
Size(r) ==
    CASE r.kind = "Scan" -> 1
      [] r.kind = "Select" ->
            1 + Size(r.src) + Len(r.predicates)
              + SumSeq([i \in DOMAIN r.predicates |-> ExprSize(r.predicates[i])])
      [] r.kind = "Join" ->
            1 + Size(r.left) + Size(r.right) + Len(r.predicates)
              + SumSeq([i \in DOMAIN r.predicates |-> ExprSize(r.predicates[i])])
      [] r.kind = "Project" -> 1 + Size(r.src)
      [] r.kind = "Map" ->
            1 + Size(r.input) + SumSeq([i \in DOMAIN r.exprs |-> ExprSize(r.exprs[i][2])])
      [] r.kind = "FlatMap" -> 1 + Size(r.input) + Size(r.func)

StackSize == SumSeq([i \in DOMAIN stack |-> Size(stack[i])])

-----------------------------------------------------------------------------
(* Bounds of the model and the inputs a caller draws                       *)

MaxId == 12

MaxStack == 2

MaxSize == 4

SeqsUpTo(S, k) == UNION {[1..j -> S] : j \in 0..k}

(* the predicate lists of a session's select and join calls: none or one *)
PredLists(S) == SeqsUpTo(S, 1)

(* the caller names the table whose first column is id 0 "a", any other "x" *)
TableFor(n) == IF n = 0 THEN "a" ELSE "x"

(* col(c) = 100 * (c + 1): col(0) = 100, col(1) = 200, ... *)
ColPred(c) == Eq(ColRef(c), Int_(100 * (c + 1)))

PairPred(c, d) == Eq(ColRef(c), ColRef(d))

ConstPred == Eq(Int_(1), Int_(1))

(* the ids issued between two contents n <= m of the counter *)
Issued(n, m) == [i \in 1..(m - n) |-> n + i - 1]

-----------------------------------------------------------------------------
(* The session: a caller holding State handles and a stack of plans        *)

Counter(h) == cells[states[h].next_id]

RuleSet(h) == rules[states[h].enabled_rules]

Top == stack[Len(stack)]

Below == stack[Len(stack) - 1]

(* the ids an expression over the top plan may reference: its own source's *)
(* and those of the plan beneath it on the stack (its enclosing scope)     *)
Scope ==
    att(Top) \cup (IF Len(stack) >= 2 THEN att(Below) ELSE {})

(* State::new() *)
Init ==
    /\ cells = <<0>>
    /\ rules = <<{}>>
    /\ states = <<[next_id |-> 1, enabled_rules |-> 1]>>
    /\ stack = <<>>
    /\ returned = <<>>
    /\ last = [op |-> "new"]
    /\ aborted = FALSE

(* the end of a constructor call made through handle h that leaves `keep`  *)
(* of the stack and returned r = [rel, next_id]                            *)
Return(h, keep, r) ==
    /\ r.next_id <= MaxId
    /\ cells' = [cells EXCEPT ![states[h].next_id] = r.next_id]
    /\ returned' = returned \o Issued(Counter(h), r.next_id)
    /\ IF IsPanic(r.rel)
       THEN aborted' = TRUE /\ stack' = <<>>
       ELSE aborted' = FALSE /\ stack' = Append(keep, r.rel)
    /\ UNCHANGED <<rules, states>>

Pop1 == SubSeq(stack, 1, Len(stack) - 1)

Pop2 == SubSeq(stack, 1, Len(stack) - 2)

DoEnable(h, rule) ==
    /\ ~aborted
    /\ rules' = [rules EXCEPT ![states[h].enabled_rules] = enable(@, rule)]
    /\ last' = [op |-> "enable", rule |-> rule]
    /\ UNCHANGED <<cells, states, stack, returned, aborted>>

DoScan(h, table_name) ==
    /\ ~aborted
    /\ LET a1 == State_next(Counter(h))
           a2 == State_next(a1.next_id)
           r == Res(Scan(table_name, <<a1.id, a2.id>>), a2.next_id)
       IN  /\ Return(h, stack, r)
           /\ last' = [op |-> "scan", res |-> r.rel]

DoSelect(predicates) ==
    /\ ~aborted
    /\ Len(stack) >= 1
    /\ LET r == select(Top, predicates)
       IN  /\ stack' = Append(Pop1, r)
           /\ last' = [op |-> "select", self |-> Top, predicates |-> predicates,
                       res |-> r]
    /\ UNCHANGED <<cells, rules, states, returned, aborted>>

DoJoin(predicates) ==
    /\ ~aborted
    /\ Len(stack) >= 2
    /\ LET r == join(Below, Top, predicates)
       IN  /\ stack' = Append(Pop2, r)
           /\ last' = [op |-> "join", self |-> Below, other |-> Top,
                       predicates |-> predicates, res |-> r]
    /\ UNCHANGED <<cells, rules, states, returned, aborted>>

DoMap(h, expr) ==
    /\ ~aborted
    /\ Len(stack) >= 1
    /\ LET a == State_next(Counter(h))
           exprs == <<<<a.id, expr>>>>
           r == map(Top, RuleSet(h), a.next_id, exprs)
       IN  /\ Return(h, Pop1, r)
           /\ last' = [op |-> "map", self |-> Top, en |-> RuleSet(h),
                       n |-> a.next_id, exprs |-> exprs, res |-> r.rel]

DoProject(h, cols) ==
    /\ ~aborted
    /\ Len(stack) >= 1
    /\ LET r == project(Top, RuleSet(h), Counter(h), cols)
       IN  /\ Return(h, Pop1, r)
           /\ last' = [op |-> "project", self |-> Top, en |-> RuleSet(h),
                       n |-> Counter(h), cols |-> cols, res |-> r.rel]

DoFlatMap(h) ==
    /\ ~aborted
    /\ Len(stack) >= 2
    /\ LET r == flatmap(Below, RuleSet(h), Counter(h), Top)
       IN  /\ Return(h, Pop2, r)
           /\ last' = [op |-> "flatmap", self |-> Below, en |-> RuleSet(h),
                       n |-> Counter(h), func |-> Top, res |-> r.rel]

(* the expressions a caller wraps around a scalar subquery *)
Shapes(sq) == {sq, Plus(Int_(4), sq), Plus(sq, Int_(4)), Eq(sq, Int_(4))}

(* below.map(state, [(state.next(), shape(Subquery(top)))]) *)
DoMapSubquery(h, expr) ==
    /\ ~aborted
    /\ Len(stack) >= 2
    /\ LET a == State_next(Counter(h))
           exprs == <<<<a.id, expr>>>>
           r == map(Below, RuleSet(h), a.next_id, exprs)
       IN  /\ Return(h, Pop2, r)
           /\ last' = [op |-> "map", self |-> Below, en |-> RuleSet(h),
                       n |-> a.next_id, exprs |-> exprs, res |-> r.rel]

(* below.hoist(state, state.next(), shape(Subquery(top))) *)
DoHoist(h, expr) ==
    /\ ~aborted
    /\ Len(stack) >= 2
    /\ LET a == State_next(Counter(h))
           r == hoist(Below, RuleSet(h), a.next_id, a.id, expr)
       IN  /\ Return(h, Pop2, r)
           /\ last' = [op |-> "hoist", self |-> Below, en |-> RuleSet(h),
                       n |-> a.next_id, id |-> a.id, expr |-> expr, res |-> r.rel]

(* ---- the session's steps: constructor calls on plans within the bounds ---- *)
(* (a call needs room for the node, the predicates or the expression it    *)
(* adds to the stack's plans; join replaces its two operands by one plan   *)
(* and needs room for its predicates only)                                 *)

Room(k) == StackSize + k <= MaxSize

Enable == \E h \in DOMAIN states, rule \in Rules : DoEnable(h, rule)

ScanStep ==
    /\ Len(stack) < MaxStack
    /\ Room(1)
    /\ \E h \in DOMAIN states : DoScan(h, TableFor(Counter(h)))

SelectStep ==
    /\ Len(stack) >= 1
    /\ \E ps \in PredLists({ColPred(c) : c \in Scope} \cup {ConstPred}) :
        Room(Size(select(Top, ps)) - Size(Top)) /\ DoSelect(ps)

JoinStep ==
    /\ Len(stack) >= 2
    /\ \E ps \in PredLists({ColPred(c) : c \in att(Below) \cup att(Top)}
                         \cup {PairPred(c, d) : c \in att(Below), d \in att(Top)}
                         \cup {ConstPred}) :
        Room(Len(ps)) /\ DoJoin(ps)

MapStep ==
    /\ Len(stack) >= 1
    /\ Room(1)
    /\ \E h \in DOMAIN states :
      \E e \in {Int_(4)} \cup
               {Plus(ColRef(cd[1]), ColRef(cd[2])) :
                    cd \in {p \in att(Top) \X Scope : p[2] < p[1]}} :
        DoMap(h, e)

ProjectStep ==
    /\ Len(stack) >= 1
    /\ Room(1)
    /\ \E h \in DOMAIN states, cols \in SUBSET att(Top) : DoProject(h, cols)

FlatMapStep == Room(1) /\ \E h \in DOMAIN states : DoFlatMap(h)

MapSubqueryStep ==
    /\ Len(stack) >= 2
    /\ Room(1)
    /\ \E h \in DOMAIN states : \E e \in Shapes(Subquery(Top)) : DoMapSubquery(h, e)

HoistStep ==
    /\ Len(stack) >= 2
    /\ Room(1)
    /\ \E h \in DOMAIN states : \E e \in Shapes(Subquery(Top)) : DoHoist(h, e)

Next ==
    \/ Enable
    \/ ScanStep
    \/ SelectStep
    \/ JoinStep
    \/ MapStep
    \/ ProjectStep
    \/ FlatMapStep
    \/ MapSubqueryStep
    \/ HoistStep

Spec == Init /\ [][Next]_vars

-----------------------------------------------------------------------------
(* The allocator and the rule configuration on their own: next(), enable(), *)
(* enabled() and clone() on the handles of one State::new()                 *)

MaxStates == 3

(* #[derive(Clone)] on State: both Rc fields are cloned, the cells shared *)
State_clone(st) == [next_id |-> st.next_id, enabled_rules |-> st.enabled_rules]

DoClone(h) ==
    /\ Len(states) < MaxStates
    /\ states' = Append(states, State_clone(states[h]))
    /\ last' = [op |-> "clone", h |-> h]
    /\ UNCHANGED <<cells, rules, stack, returned, aborted>>

DoNext(h) ==
    /\ Counter(h) < MaxId
    /\ LET a == State_next(Counter(h))
       IN  /\ cells' = [cells EXCEPT ![states[h].next_id] = a.next_id]
           /\ returned' = Append(returned, a.id)
           /\ last' = [op |-> "next", h |-> h, id |-> a.id]
    /\ UNCHANGED <<rules, states, stack, aborted>>

DoEnabled(h, rule) ==
    /\ last' = [op |-> "enabled", h |-> h, rule |-> rule,
                res |-> enabled(RuleSet(h), rule)]
    /\ UNCHANGED <<cells, rules, states, stack, returned, aborted>>

Clone == \E h \in DOMAIN states : DoClone(h)

NextId == \E h \in DOMAIN states : DoNext(h)

Enabled == \E h \in DOMAIN states, rule \in Rules : DoEnabled(h, rule)

NextAlloc ==
    \/ Clone
    \/ NextId
    \/ Enable
    \/ Enabled

SpecAlloc == Init /\ [][NextAlloc]_vars

(* C6: over any sequence of next() calls on a State and its clones, every  *)
(* id returned is strictly greater than every id returned before it (so no *)
(* two calls return the same id), and an enable() or enabled() call leaves *)
(* every counter cell as it was.                                           *)
C6_FreshIds ==
    /\ [](\A i, j \in DOMAIN returned : i < j => returned[i] < returned[j])
    /\ [][last'.op \in {"enable", "enabled"} => cells' = cells]_vars

(* two ids were issued, the later one through a clone, with a rule enabled *)
(* in between or before                                                    *)
C6_Witness ==
    /\ Len(returned) >= 2
    /\ last.op = "next"
    /\ last.h >= 2
    /\ RuleSet(last.h) # {}

-----------------------------------------------------------------------------
(* join on its own: two operand plans a session has built, then one join   *)
(* call with a predicate list over all the ids issued so far               *)

MaxPreds == 3

(* scan("a", [0, 1]) and scan("x", [2, 3]), as in main *)
ScanA == Scan("a", <<0, 1>>)

ScanX == Scan("x", <<2, 3>>)

(* left operands: the scan, a selection of it, a projection of it *)
JoinLefts ==
    {ScanA, select(ScanA, <<ColPred(1)>>), project(ScanA, {}, 5, {0}).rel}

(* right operands: the scan, a selection of it *)
JoinRights == {ScanX, select(ScanX, <<ColPred(3)>>)}

(* ids 0..3 are the columns of the two scans; id 4 was issued for a column *)
(* of an enclosing plan and is bound by neither operand                    *)
InitJoin ==
    /\ cells = <<5>>
    /\ rules = <<{}>>
    /\ states = <<[next_id |-> 1, enabled_rules |-> 1]>>
    /\ stack \in {<<l, r>> : l \in JoinLefts, r \in JoinRights}
    /\ returned = Issued(0, 5)
    /\ last = [op |-> "new"]
    /\ aborted = FALSE

(* constants, one-column predicates over every issued id, and equalities   *)
(* of the left scan's first column with every other id                     *)
JoinPreds ==
    {ConstPred}
      \cup {ColPred(c) : c \in 0..(Counter(1) - 1)}
      \cup {PairPred(0, d) : d \in 1..(Counter(1) - 1)}

JoinAnyStep ==
    /\ Len(stack) >= 2
    /\ \E ps \in SeqsUpTo(JoinPreds, MaxPreds) : DoJoin(ps)

NextJoin == JoinAnyStep

SpecJoin == InitJoin /\ [][NextJoin]_vars

(* the predicates of the Select directly beneath a join's side, if any *)
SelectPreds(side) ==
    IF side.kind = "Select" THEN Range(side.predicates) ELSE {}

(* C1 as stated: after join(L, R, preds) every predicate on the root Join  *)
(* references a column of att(L) and a column of att(R), and every         *)
(* predicate whose free columns all lie in att(L) (resp. att(R)) is off    *)
(* the Join and in the Select directly beneath it on the left (resp.       *)
(* right).                                                                 *)
C1_AsStated ==
    last.op = "join" =>
        /\ last.res.kind = "Join"
        /\ \A p \in Range(last.res.predicates) :
              /\ Expr_free(p) \cap att(last.self) # {}
              /\ Expr_free(p) \cap att(last.other) # {}
        /\ \A p \in Range(last.predicates) :
              /\ Expr_free(p) \subseteq att(last.self) =>
                    /\ p \notin Range(last.res.predicates)
                    /\ p \in SelectPreds(last.res.left)
              /\ Expr_free(p) \subseteq att(last.other) =>
                    /\ p \notin Range(last.res.predicates)
                    /\ p \in SelectPreds(last.res.right)

(* C1 amended: after join(L, R, preds) every predicate on the root Join    *)
(* has a free column outside att(L) and a free column outside att(R); every*)
(* predicate whose free columns all lie in att(L) is off the Join and in   *)
(* the Select directly beneath it on the left; every predicate whose free  *)
(* columns all lie in att(R) but not all in att(L) is off the Join and in  *)
(* the Select directly beneath it on the right.                            *)
C1_JoinPushdown ==
    last.op = "join" =>
        /\ last.res.kind = "Join"
        /\ \A p \in Range(last.res.predicates) :
              /\ ~(Expr_free(p) \subseteq att(last.self))
              /\ ~(Expr_free(p) \subseteq att(last.other))
        /\ \A p \in Range(last.predicates) :
              /\ Expr_free(p) \subseteq att(last.self) =>
                    /\ p \notin Range(last.res.predicates)
                    /\ p \in SelectPreds(last.res.left)
              /\ (/\ Expr_free(p) \subseteq att(last.other)
                  /\ ~(Expr_free(p) \subseteq att(last.self))) =>
                    /\ p \notin Range(last.res.predicates)
                    /\ p \in SelectPreds(last.res.right)

(* a join call on two bare scans that pushed a constant to the left, a     *)
(* right-only predicate to the right, and kept on the Join a predicate     *)
(* over a left column and a column of neither side                         *)
C1_Witness ==
    /\ last.op = "join"
    /\ last.self.kind = "Scan"
    /\ last.other.kind = "Scan"
    /\ \E p \in Range(last.predicates) :
          Expr_free(p) = {} /\ p \in SelectPreds(last.res.left)
    /\ \E p \in Range(last.predicates) :
          Expr_free(p) # {} /\ p \in SelectPreds(last.res.right)
    /\ \E p \in Range(last.res.predicates) :
          /\ Expr_free(p) \cap att(last.self) # {}
          /\ Expr_free(p) \ (att(last.self) \cup att(last.other)) # {}

(* join(scan("a",[0,1]), scan("x",[2,3]), [col(0)=100, col(1)=200]) *)
ScenarioB ==
    /\ last.op = "join"
    /\ last.self = Scan("a", <<0, 1>>)
    /\ last.other = Scan("x", <<2, 3>>)
    /\ last.predicates = <<Eq(ColRef(0), Int_(100)), Eq(ColRef(1), Int_(200))>>

(* C7 as stated: scenario B returns a Join with no predicates whose left   *)
(* and right children are each a Select.                                   *)
C7_AsStated ==
    ScenarioB =>
        /\ last.res.kind = "Join"
        /\ last.res.predicates = <<>>
        /\ last.res.left.kind = "Select"
        /\ last.res.right.kind = "Select"

(* C7 amended: scenario B returns a Join with no predicates whose left     *)
(* child is one Select over scan a holding both predicates, col(0)=100     *)
(* then col(1)=200, and whose right child is the bare scan x.              *)
C7_ScenarioB ==
    ScenarioB =>
        last.res =
            JoinNode(SelectNode(Scan("a", <<0, 1>>),
                                <<Eq(ColRef(0), Int_(100)), Eq(ColRef(1), Int_(200))>>),
                     Scan("x", <<2, 3>>), <<>>)

C7_Witness == ScenarioB /\ last.res.kind = "Join"

-----------------------------------------------------------------------------
(* Hoisting on its own: the outer scan a and a nested plan a session has   *)
(* built over scan x, then one map or hoist call that wraps the nested     *)
(* plan in a Subquery                                                      *)

MaxChain == 3

Min(S) == CHOOSE m \in S : \A k \in S : m <= k

(* one more constructor call on a nested plan c = [rel, next_id], made     *)
(* while no rule is enabled: a projection to at most one column, a         *)
(* selection on the outer column 0, a map adding its first column to the   *)
(* outer column 0, or a map of a subquery over a fresh two-column scan y   *)
Extend(c) ==
    {project(c.rel, {}, c.next_id, cols) :
        cols \in {S \in SUBSET att(c.rel) : Cardinality(S) <= 1}}
      \cup {Res(select(c.rel, <<ColPred(0)>>), c.next_id)}
      \cup (IF att(c.rel) = {} THEN {}
            ELSE LET a == State_next(c.next_id)
                 IN  {map(c.rel, {}, a.next_id,
                          <<<<a.id, Plus(ColRef(Min(att(c.rel))), ColRef(0))>>>>)})
      \cup (LET y1 == State_next(c.next_id)
                y2 == State_next(y1.next_id)
                t  == State_next(y2.next_id)
                y  == Scan("y", <<y1.id, y2.id>>)
            IN  {map(c.rel, {}, t.next_id, <<<<t.id, e>>>>) :
                    e \in {Subquery(y),
                           Plus(Int_(4),
                                Subquery(project(y, {}, t.next_id, {y1.id}).rel))}})

RECURSIVE Chains(_)
(* the nested plans built from scan x by at most k constructor calls *)
Chains(k) ==
    IF k = 0 THEN {Res(ScanX, 4)}
    ELSE LET prev == Chains(k - 1)
         IN  prev \cup UNION {Extend(c) : c \in prev}

InitHoist ==
    \E c \in Chains(MaxChain), en \in SUBSET Rules :
        /\ cells = <<c.next_id>>
        /\ rules = <<en>>
        /\ states = <<[next_id |-> 1, enabled_rules |-> 1]>>
        /\ stack = <<ScanA, c.rel>>
        /\ returned = Issued(0, c.next_id)
        /\ last = [op |-> "new"]
        /\ aborted = FALSE

MapSubqueryAnyStep ==
    /\ Len(stack) >= 2
    /\ \E h \in DOMAIN states : \E e \in Shapes(Subquery(Top)) : DoMapSubquery(h, e)

HoistAnyStep ==
    /\ Len(stack) >= 2
    /\ \E h \in DOMAIN states : \E e \in Shapes(Subquery(Top)) : DoHoist(h, e)

NextHoist ==
    \/ MapSubqueryAnyStep
    \/ HoistAnyStep

SpecHoist == InitHoist /\ [][NextHoist]_vars

(* ---- what the last call hoisted ---- *)

(* the last call was hoist, or map with the Hoist rule enabled on an       *)
(* assignment whose expression contains a subquery                         *)
HoistCall ==
    \/ last.op = "hoist"
    \/ /\ last.op = "map"
       /\ "Hoist" \in last.en
       /\ Expr_has_subquery(last.exprs[1][2])

HoistId == IF last.op = "hoist" THEN last.id ELSE last.exprs[1][1]

HoistExpr == IF last.op = "hoist" THEN last.expr ELSE last.exprs[1][2]

Sole(S) == CHOOSE c \in S : TRUE

(* plan r outputs id, and a Map of r assigns id := ColRef(c) *)
Binds(r, id, c) ==
    /\ id \in att(r)
    /\ \E nd \in SubPlans(r) :
          nd.kind = "Map" /\ <<id, ColRef(c)>> \in Range(nd.exprs)

(* a Map of plan r carries an assignment whose expression has a subquery *)
HasSubqueryMap(r) ==
    \E nd \in SubPlans(r) :
        nd.kind = "Map" /\ \E i \in DOMAIN nd.exprs : Expr_has_subquery(nd.exprs[i][2])

(* C5 as stated: hoisting a Subquery (by hoist, or by map with Hoist       *)
(* enabled) fails when the nested plan's attribute set has size 0 or >= 2, *)
(* and when the size is 1 it succeeds and binds id to the sole column.     *)
C5_AsStated ==
    (HoistCall /\ HoistExpr.kind = "Subquery") =>
        IF Cardinality(att(HoistExpr.expr)) # 1
        THEN IsPanic(last.res)
        ELSE /\ ~IsPanic(last.res)
             /\ Binds(last.res, HoistId, Sole(att(HoistExpr.expr)))

(* C5 amended: hoisting a Subquery fails on the arity check when the       *)
(* nested plan's attribute set has size 0 or >= 2; when the size is 1 the  *)
(* arity check passes and the hoist returns a plan that binds id to the    *)
(* sole column, unless Hoist and Decorrelate are both enabled and a Map of *)
(* the nested plan carries a subquery-bearing assignment (re-applying that *)
(* Map above the join hoists it in turn, and that hoist may fail).         *)
C5_HoistArity ==
    (HoistCall /\ HoistExpr.kind = "Subquery") =>
        IF Cardinality(att(HoistExpr.expr)) # 1
        THEN last.res = Panic("arity")
        ELSE IF IsPanic(last.res)
             THEN last.en = Rules /\ HasSubqueryMap(HoistExpr.expr)
             ELSE Binds(last.res, HoistId, Sole(att(HoistExpr.expr)))

(* a Subquery over a two-column plan was hoisted through map, and failed *)
C5_Witness ==
    /\ last.op = "map"
    /\ HoistCall
    /\ HoistExpr.kind = "Subquery"
    /\ Cardinality(att(HoistExpr.expr)) = 2
    /\ IsPanic(last.res)
    /\ aborted

(* ---- the plan main() builds ---- *)

(* scan("x",[2,3]).project({2}).map([(4, col(2)+col(0))]).project({4}) *)
MainSubquery ==
    ProjectNode(MapNode(ProjectNode(Scan("x", <<2, 3>>), {2}),
                        <<<<4, Plus(ColRef(2), ColRef(0))>>>>), {4})

(* scan("a",[0,1]).map([(5, 4 + Subquery(..))]) with both rules enabled *)
MainCall ==
    /\ last.op = "map"
    /\ last.self = Scan("a", <<0, 1>>)
    /\ last.en = {"Hoist", "Decorrelate"}
    /\ last.exprs = <<<<5, Plus(Int_(4), Subquery(MainSubquery))>>>>

RECURSIVE CountKind(_, _)
(* the number of nodes of kind k in plan r, its children included *)
CountKind(r, k) ==
    (IF r.kind = k THEN 1 ELSE 0) +
    CASE r.kind = "Scan" -> 0
      [] r.kind = "Select" -> CountKind(r.src, k)
      [] r.kind = "Project" -> CountKind(r.src, k)
      [] r.kind = "Map" -> CountKind(r.input, k)
      [] r.kind = "Join" -> CountKind(r.left, k) + CountKind(r.right, k)
      [] r.kind = "FlatMap" -> CountKind(r.input, k) + CountKind(r.func, k)

(* some expression of plan r (a predicate or an assignment) has a subquery *)
HasSubqueryExpr(r) ==
    \E nd \in SubPlans(r) :
        \/ nd.kind = "Map" /\ \E i \in DOMAIN nd.exprs : Expr_has_subquery(nd.exprs[i][2])
        \/ /\ nd.kind \in {"Select", "Join"}
           /\ \E i \in DOMAIN nd.predicates : Expr_has_subquery(nd.predicates[i])

(* C8: with Hoist and Decorrelate enabled the plan of main() has exactly   *)
(* one Join, no FlatMap, no Subquery expression and attribute set          *)
(* {a, b, s} = {0, 1, 5}; the Join's inner side is uncorrelated, the       *)
(* subquery's Map and Project having been pulled above it.                 *)
C8_Main ==
    MainCall =>
        /\ ~IsPanic(last.res)
        /\ CountKind(last.res, "Join") = 1
        /\ CountKind(last.res, "FlatMap") = 0
        /\ ~HasSubqueryExpr(last.res)
        /\ att(last.res) = {0, 1, 5}
        /\ \A nd \in SubPlans(last.res) :
              nd.kind = "Join" =>
                  /\ free(nd.right) = {}
                  /\ nd.right = ProjectNode(Scan("x", <<2, 3>>), {2})

C8_Witness == MainCall /\ ~aborted /\ stack = <<last.res>>

(* ---- hoisting a Plus ---- *)

PlusHoist == HoistCall /\ HoistExpr.kind = "Plus" /\ ~IsPanic(last.res)

(* the Map that hoist lays over the result of the second hoist *)
PlusMap == IF last.res.kind = "Project" THEN last.res.src ELSE last.res

IsLeaf(e) == e.kind \in {"Int", "ColRef"}

(* what C10 says of the plan, with f1 = n and f2 = n + 1 the two ids taken *)
(* at entry: the top Map assigns id := f1 + f2 over X, the result of the   *)
(* second hoist; a leaf l was mapped under f1 onto the source itself, and  *)
(* that Map (not the bare source) is the outer side of the dependent join  *)
(* of a Subquery r; a leaf r was mapped under f2 onto a plan that already  *)
(* outputs f1; a Subquery operand is bound to its id inside X              *)
PlusShape ==
    LET f1 == last.n
        f2 == last.n + 1
        l == HoistExpr.left
        r == HoistExpr.right
        X == PlusMap.input
        h1 == MapNode(last.self, <<<<f1, l>>>>)
    IN  /\ PlusMap.kind = "Map"
        /\ PlusMap.exprs = <<<<HoistId, Plus(ColRef(f1), ColRef(f2))>>>>
        /\ {f1, f2} \subseteq att(X)
        /\ IsLeaf(l) => h1 \in SubPlans(X)
        /\ IsLeaf(r) => (X = MapNode(X.input, <<<<f2, r>>>>) /\ f1 \in att(X.input))
        /\ l.kind = "Subquery" => Binds(X, f1, Sole(att(l.expr)))
        /\ r.kind = "Subquery" => Binds(X, f2, Sole(att(r.expr)))
        /\ (IsLeaf(l) /\ r.kind = "Subquery") =>
              \E nd \in SubPlans(X) :
                  \/ nd.kind = "Join" /\ nd.left = h1
                  \/ nd.kind = "FlatMap" /\ nd.input = h1

(* C10 as stated: hoist of Plus(l, r) takes f1 then f2, hoists l under f1  *)
(* onto source, r under f2 onto the result, maps id := f1 + f2 on top; for *)
(* a Plus of a leaf and a Subquery these are the only ids allocated.       *)
C10_AsStated ==
    PlusHoist => PlusShape /\ Counter(1) = last.n + 2

(* C10 amended: as stated, except that the two ids are the only ones       *)
(* allocated only when no Map of the nested plan carries a                 *)
(* subquery-bearing assignment (with Hoist and Decorrelate enabled such a  *)
(* Map is re-applied above the join and hoisted in turn; a Plus in it      *)
(* takes two more ids).                                                    *)
C10_HoistPlus ==
    PlusHoist =>
        /\ PlusShape
        /\ (\A e \in {HoistExpr.left, HoistExpr.right} :
                e.kind = "Subquery" => ~HasSubqueryMap(e.expr))
              => Counter(1) = last.n + 2

(* hoist of Plus(4, Subquery(..)) over a one-column nested plan succeeded *)
C10_Witness ==
    /\ PlusHoist
    /\ last.op = "hoist"
    /\ HoistExpr.left = Int_(4)
    /\ HoistExpr.right.kind = "Subquery"
    /\ last.en = {"Hoist", "Decorrelate"}
    /\ Counter(1) = last.n + 2

-----------------------------------------------------------------------------
(* Claims on the plans of a session                                        *)

(* C2 as stated: for a plan p and cols a subset of att(p), the plan        *)
(* returned by project(p, cols) has attribute set exactly cols, whether a  *)
(* Project node is materialized or the projection is pushed through a Map. *)
C2_AsStated ==
    (last.op = "project" /\ ~IsPanic(last.res) /\ last.cols \subseteq att(last.self))
        => att(last.res) = last.cols

(* C3: with Decorrelate enabled and free(inner) = {}, flatmap(outer,       *)
(* inner) returns the Join node with left = outer, right = inner and no    *)
(* predicates, never a FlatMap node.                                       *)
C3_DecorrelateJoin ==
    (last.op = "flatmap" /\ "Decorrelate" \in last.en /\ free(last.func) = {})
        => /\ last.res = JoinNode(last.self, last.func, <<>>)
           /\ last.res.kind # "FlatMap"

(* an uncorrelated inner plan that is more than a scan was flat-mapped     *)
(* with Decorrelate enabled                                                *)
C3_Witness ==
    /\ last.op = "flatmap"
    /\ "Decorrelate" \in last.en
    /\ free(last.func) = {}
    /\ last.func.kind # "Scan"
    /\ stack = <<last.res>>

(* C4: select on a Select merges: the result is one Select over the        *)
(* non-Select child holding the existing predicates followed by the new    *)
(* ones (so select(select(p, P1), P2) is the tree of select(p, P1 ++ P2)); *)
(* and no plan returned by select or join (no plan of the session at all)  *)
(* has a Select whose direct child is a Select.                            *)
C4_SelectMerge ==
    /\ last.op = "select" =>
          IF last.self.kind = "Select"
          THEN /\ last.self.src.kind # "Select"
               /\ last.res = SelectNode(last.self.src,
                                        last.self.predicates \o last.predicates)
          ELSE last.res = SelectNode(last.self, last.predicates)
    /\ \A i \in DOMAIN stack : \A nd \in SubPlans(stack[i]) :
          nd.kind = "Select" => nd.src.kind # "Select"

(* a select of one predicate on a Select of one predicate *)
C4_Witness ==
    /\ last.op = "select"
    /\ last.self.kind = "Select"
    /\ Len(last.self.predicates) = 1
    /\ Len(last.predicates) = 1
    /\ Len(last.res.predicates) = 2

(* C9: in every plan a session builds, under any rule configuration, every *)
(* node n has free(n) and att(n) disjoint, and every Join node has         *)
(* att(left) and att(right) disjoint.                                      *)
C9_FreeAttDisjoint ==
    \A i \in DOMAIN stack : \A nd \in SubPlans(stack[i]) :
        /\ free(nd) \cap att(nd) = {}
        /\ nd.kind = "Join" => att(nd.left) \cap att(nd.right) = {}

(* a correlated inner plan was flat-mapped with Decorrelate enabled and    *)
(* the result holds a Join                                                 *)
C9_Witness ==
    /\ last.op = "flatmap"
    /\ "Decorrelate" \in last.en
    /\ free(last.func) # {}
    /\ stack = <<last.res>>
    /\ CountKind(last.res, "Join") = 1

====
